---- MODULE Spec2Model ----
(***************************************************************************)
(* A model of slate_sftp.client.SlateSFTP and of the command-line main()   *)
(* of slate_sftp.file_manager.                                             *)
(*                                                                         *)
(* Paths are POSIX path strings, held as the sequence of their components: *)
(* an absolute path starts with the component "/" (or "//", for a path     *)
(* that starts with two slashes), a path that ends in a slash ends with    *)
(* the component "", and the empty string is <<>>.  Both                   *)
(* file systems (the local one and the one behind the SFTP endpoint) are   *)
(* functions from the resolved paths of their entries to "dir" or to the   *)
(* content of a regular file.  Every call the client makes to the endpoint *)
(* (paramiko) or to the os module that can raise is written to a log;      *)
(* the environment decides which of these calls fail through a fault plan, *)
(* a function from log positions to the class of the exception raised.     *)
(***************************************************************************)
EXTENDS Naturals, Sequences, FiniteSets, TLC

VARIABLES
  transport,  \* self.transport: None, or the number of the open Transport
  sftp,       \* self.sftp: None, or the number of the Transport it runs on
  opened,     \* number of Transports constructed so far
  live,       \* the Transports constructed and not yet closed
  lfs,        \* the local file system
  rfs,        \* the remote file system
  last,       \* the last call of a method: arguments, fault plan, outcome
  pc          \* position of the calling program

vars == <<transport, sftp, opened, live, lfs, rfs, last, pc>>

(***************************************************************************)
(* Bounds of the model.                                                    *)
(***************************************************************************)
MaxNodes == 4      \* entries of an initial directory tree
MaxFaults == 1     \* failures the environment injects into one call
MaxBatch == 3      \* length of the list given to a batch transfer
MaxTransports == 2 \* Transports constructed in one run

None == 0                 \* Python's None; Transports are numbered from 1

TreeNames == {"a", "b"}
Contents == {"x", "y"}
Trunc == "trunc"          \* a file opened for writing and never filled
Dangling == "dangling"    \* a symbolic link to nothing: listed, but stat fails
NameOrder == <<"a", "b", "f", "l", "r">>  \* the order in which listdir lists

(***************************************************************************)
(* os.path on POSIX path strings.                                          *)
(***************************************************************************)
Root == <<"/">>
DoubleRoot == <<"//">>    \* the string "//", which dirname leaves as it is
Last(p) == p[Len(p)]
Front(p) == SubSeq(p, 1, Len(p) - 1)

os_path_dirname(p) ==
  IF p = <<>> \/ p = Root \/ p = DoubleRoot THEN p ELSE Front(p)

os_path_basename(p) ==
  IF p = <<>> \/ p = Root \/ p = DoubleRoot THEN "" ELSE Last(p)

os_path_join(p, item) ==
  IF p = <<>> THEN <<item>>
  ELSE IF Last(p) = "" THEN Append(Front(p), item)
  ELSE Append(p, item)

\* The entry a path string names: relative paths start at the working
\* directory, which is the root of the modelled file system.
RECURSIVE Resolve(_)
Resolve(p) ==
  IF p = <<>> THEN <<>>
  ELSE IF Head(p) \in {"/", "//", ""} THEN Resolve(Tail(p))
  ELSE <<Head(p)>> \o Resolve(Tail(p))

TrailingSlash(p) == Len(p) > 1 /\ Last(p) = ""

(***************************************************************************)
(* File systems.                                                           *)
(***************************************************************************)
EmptyFS == <<>>

NodeAt(fs, key) ==
  IF key = <<>> THEN "dir"
  ELSE IF key \in DOMAIN fs THEN fs[key] ELSE "none"

\* What stat / os.path report for a path string.
Lookup(fs, p) ==
  IF p = <<>> THEN "none"
  ELSE LET k == NodeAt(fs, Resolve(p))
       IN  IF TrailingSlash(p) /\ k # "dir" THEN "none" ELSE k

IsFile(k) == k \notin {"none", "dir", Dangling}

AddNode(fs, key, k) ==
  [q \in DOMAIN fs \cup {key} |-> IF q = key THEN k ELSE fs[q]]

Dirs(fs) == {<<>>} \cup {p \in DOMAIN fs : fs[p] = "dir"}

Slots(fs) == {d \o <<n>> : d \in Dirs(fs), n \in TreeNames} \ DOMAIN fs

\* All directory trees of at most n entries, each entry being of a kind in K.
RECURSIVE Trees(_, _)
Trees(n, K) ==
  IF n = 0 THEN {EmptyFS}
  ELSE LET prev == Trees(n - 1, K)
       IN  prev \cup UNION {{AddNode(t, p, k) : p \in Slots(t), k \in K} : t \in prev}

\* The names of the entries of directory key, in listing order.
Listing(fs, key) ==
  LET present(i) == Append(key, NameOrder[i]) \in DOMAIN fs
      F[i \in 0..Len(NameOrder)] ==
        IF i = 0 THEN <<>>
        ELSE IF present(i) THEN Append(F[i - 1], NameOrder[i]) ELSE F[i - 1]
  IN  F[Len(NameOrder)]

\* The tree below directory key, with paths relative to key.
Subtree(fs, key) ==
  LET inside == {q \in DOMAIN fs : Len(q) > Len(key) /\ SubSeq(q, 1, Len(key)) = key}
      rel == {SubSeq(q, Len(key) + 1, Len(q)) : q \in inside}
  IN  [r \in rel |-> fs[key \o r]]

WellFormed(fs) ==
  \A q \in DOMAIN fs : Len(q) > 0 /\ NodeAt(fs, Front(q)) = "dir"

(***************************************************************************)
(* The log of one call, and the fault plan of the environment.             *)
(***************************************************************************)
Event(op, p, q, res) == [op |-> op, path |-> p, path2 |-> q, res |-> res]

Logged(s, op, p, q, res) == [s EXCEPT !.log = Append(@, Event(op, p, q, res))]

EndpointOps == {"stat", "listdir", "mkdir", "get", "put"}
LocalOps == {"makedirs", "os_listdir"}

NoFaults == <<>>

Fault(s, plan) ==
  LET i == Len(s.log) + 1
  IN  IF i \in DOMAIN plan THEN plan[i] ELSE "none"

Ok(s, v) == [s |-> s, exc |-> "none", ret |-> v]
Raise(s, e) == [s |-> s, exc |-> e, ret |-> FALSE]

(***************************************************************************)
(* The calls of the client to paramiko's SFTPClient and to os.             *)
(***************************************************************************)
sftp_stat(s, plan, p) ==
  LET f == Fault(s, plan)
      k == Lookup(s.rfs, p)
      exc == IF f # "none" THEN f
             ELSE IF k \in {"none", Dangling} THEN "IOError" ELSE "none"
  IN  [s |-> Logged(s, "stat", p, <<>>, exc), exc |-> exc,
       ret |-> (exc = "none" /\ k = "dir")]

sftp_listdir(s, plan, p) ==
  LET f == Fault(s, plan)
      k == Lookup(s.rfs, p)
      exc == IF f # "none" THEN f ELSE IF k # "dir" THEN "IOError" ELSE "none"
  IN  [s |-> Logged(s, "listdir", p, <<>>, exc), exc |-> exc,
       ret |-> IF exc = "none" THEN Listing(s.rfs, Resolve(p)) ELSE <<>>]

sftp_mkdir(s, plan, p) ==
  LET f == Fault(s, plan)
      key == Resolve(p)
      bad == \/ key = <<>>
             \/ key \in DOMAIN s.rfs
             \/ NodeAt(s.rfs, Front(key)) # "dir"
      exc == IF f # "none" THEN f ELSE IF bad THEN "IOError" ELSE "none"
      t == Logged(s, "mkdir", p, <<>>, exc)
  IN  [s |-> IF exc = "none" THEN [t EXCEPT !.rfs = AddNode(@, key, "dir")] ELSE t,
       exc |-> exc, ret |-> FALSE]

\* Whether path p of fs can be opened for writing.
Writable(fs, p) ==
  LET key == Resolve(p)
  IN  /\ key # <<>>
      /\ ~TrailingSlash(p)
      /\ NodeAt(fs, key) # "dir"
      /\ NodeAt(fs, Front(key)) = "dir"

\* SFTPClient.get opens the local file for writing before it asks the server.
sftp_get(s, plan, remote_path, local_path) ==
  LET f == Fault(s, plan)
      k == Lookup(s.rfs, remote_path)
      open == Writable(s.lfs, local_path)
      exc == IF ~open THEN "IOError"
             ELSE IF f # "none" THEN f
             ELSE IF ~IsFile(k) THEN "IOError" ELSE "none"
      t == Logged(s, "get", remote_path, local_path, exc)
  IN  [s |-> IF ~open THEN t
             ELSE [t EXCEPT !.lfs = AddNode(@, Resolve(local_path),
                                            IF exc = "none" THEN k ELSE Trunc)],
       exc |-> exc, ret |-> FALSE]

\* SFTPClient.put reads the local file and opens the remote one for writing.
sftp_put(s, plan, local_path, remote_path) ==
  LET f == Fault(s, plan)
      k == Lookup(s.lfs, local_path)
      open == IsFile(k) /\ Writable(s.rfs, remote_path)
      exc == IF ~open THEN "IOError" ELSE f
      t == Logged(s, "put", local_path, remote_path, exc)
  IN  [s |-> IF ~open THEN t
             ELSE [t EXCEPT !.rfs = AddNode(@, Resolve(remote_path),
                                            IF exc = "none" THEN k ELSE Trunc)],
       exc |-> exc, ret |-> FALSE]

os_path_exists(s, p) == Lookup(s.lfs, p) # "none"

os_path_isdir(s, p) == Lookup(s.lfs, p) = "dir"

\* key and every prefix of it that is not yet an entry of fs.
RECURSIVE WithAncestors(_, _)
WithAncestors(fs, key) ==
  IF key = <<>> \/ key \in DOMAIN fs THEN fs
  ELSE AddNode(WithAncestors(fs, Front(key)), key, "dir")

os_makedirs(s, plan, p) ==
  LET f == Fault(s, plan)
      key == Resolve(p)
      bad == \/ key = <<>>
             \/ key \in DOMAIN s.lfs
             \/ \E i \in 1..(Len(key) - 1) : IsFile(NodeAt(s.lfs, SubSeq(key, 1, i)))
      exc == IF f # "none" THEN "IOError" ELSE IF bad THEN "IOError" ELSE "none"
      t == Logged(s, "makedirs", p, <<>>, exc)
  IN  [s |-> IF exc = "none" THEN [t EXCEPT !.lfs = WithAncestors(@, key)] ELSE t,
       exc |-> exc, ret |-> FALSE]

\* os.makedirs(p, exist_ok=True)
os_makedirs_exist_ok(s, plan, p) ==
  IF os_path_isdir(s, p) /\ Fault(s, plan) = "none"
  THEN Ok(Logged(s, "makedirs", p, <<>>, "none"), FALSE)
  ELSE os_makedirs(s, plan, p)

os_listdir(s, plan, p) ==
  LET f == Fault(s, plan)
      k == Lookup(s.lfs, p)
      exc == IF f # "none" THEN "IOError" ELSE IF k # "dir" THEN "IOError" ELSE "none"
  IN  [s |-> Logged(s, "os_listdir", p, <<>>, exc), exc |-> exc,
       ret |-> IF exc = "none" THEN Listing(s.lfs, Resolve(p)) ELSE <<>>]

\* A message written to standard output: who printed it, about which paths.
print(s, who, p, q) == Logged(s, "print", p, q, who)

(***************************************************************************)
(* SlateSFTP: the listing methods.  Each returns [s, exc, ret].            *)
(***************************************************************************)
RECURSIVE list_directories_loop(_, _, _, _, _, _)
list_directories_loop(s, plan, remote_path, entries, i, directories) ==
  LET full_path == os_path_join(remote_path, entries[i])
      next(st) ==
        IF st.exc = "none"
        THEN list_directories_loop(st.s, plan, remote_path, entries, i + 1,
                                   IF st.ret THEN Append(directories, entries[i])
                                   ELSE directories)
        ELSE IF st.exc = "IOError"
        THEN list_directories_loop(st.s, plan, remote_path, entries, i + 1, directories)
        ELSE Raise(st.s, st.exc)
  IN  IF i > Len(entries) THEN Ok(s, directories)
      ELSE next(sftp_stat(s, plan, full_path))

list_directories(s, plan, remote_path) ==
  LET listed(ls) ==
        IF ls.exc # "none" THEN Raise(ls.s, ls.exc)
        ELSE list_directories_loop(ls.s, plan, remote_path, ls.ret, 1, <<>>)
  IN  IF s.sftp = None THEN Raise(s, "ConnectionError")
      ELSE listed(sftp_listdir(s, plan, remote_path))

RECURSIVE list_files_loop(_, _, _, _, _, _)
list_files_loop(s, plan, remote_path, entries, i, files) ==
  LET full_path == os_path_join(remote_path, entries[i])
      next(st) ==
        IF st.exc = "none"
        THEN list_files_loop(st.s, plan, remote_path, entries, i + 1,
                             IF ~st.ret THEN Append(files, entries[i]) ELSE files)
        ELSE IF st.exc = "IOError"
        THEN list_files_loop(st.s, plan, remote_path, entries, i + 1, files)
        ELSE Raise(st.s, st.exc)
  IN  IF i > Len(entries) THEN Ok(s, files)
      ELSE next(sftp_stat(s, plan, full_path))

list_files(s, plan, remote_path) ==
  LET listed(ls) ==
        IF ls.exc # "none" THEN Raise(ls.s, ls.exc)
        ELSE list_files_loop(ls.s, plan, remote_path, ls.ret, 1, <<>>)
  IN  IF s.sftp = None THEN Raise(s, "ConnectionError")
      ELSE listed(sftp_listdir(s, plan, remote_path))

RECURSIVE list_all_loop(_, _, _, _, _, _, _)
\* list_all_loop that takes an entry whose stat raises IOError for a file.
list_all_loop_keeps_unknown(s, plan, remote_path, entries, i, directories, files) ==
  LET full_path == os_path_join(remote_path, entries[i])
      next(st) ==
        IF st.exc = "none" \/ st.exc = "IOError"
        THEN list_all_loop(st.s, plan, remote_path, entries, i + 1,
                           IF st.ret THEN Append(directories, entries[i])
                           ELSE directories,
                           IF st.ret THEN files ELSE Append(files, entries[i]))
        ELSE Raise(st.s, st.exc)
  IN  IF i > Len(entries) THEN Ok(s, <<directories, files>>)
      ELSE next(sftp_stat(s, plan, full_path))

list_all_loop(s, plan, remote_path, entries, i, directories, files) ==
  LET full_path == os_path_join(remote_path, entries[i])
      next(st) ==
        IF st.exc = "none"
        THEN list_all_loop(st.s, plan, remote_path, entries, i + 1,
                           IF st.ret THEN Append(directories, entries[i])
                           ELSE directories,
                           IF st.ret THEN files ELSE Append(files, entries[i]))
        ELSE IF st.exc = "IOError"
        THEN list_all_loop(st.s, plan, remote_path, entries, i + 1, directories, files)
        ELSE Raise(st.s, st.exc)
  IN  IF i > Len(entries) THEN Ok(s, <<directories, files>>)
      ELSE next(sftp_stat(s, plan, full_path))

list_all(s, plan, remote_path) ==
  LET listed(ls) ==
        IF ls.exc # "none" THEN Raise(ls.s, ls.exc)
        ELSE list_all_loop(ls.s, plan, remote_path, ls.ret, 1, <<>>, <<>>)
  IN  IF s.sftp = None THEN Raise(s, "ConnectionError")
      ELSE listed(sftp_listdir(s, plan, remote_path))

(***************************************************************************)
(* SlateSFTP: the transfer methods.  Each returns [s, exc, ret]: the state *)
(* it leaves, the exception it lets through ("none" when it returns) and   *)
(* the value it returns.                                                   *)
(***************************************************************************)
create_directory(s, plan, remote_path) ==
  LET \* except IOError
      done(mk) ==
        IF mk.exc = "none" THEN Ok(mk.s, TRUE)
        ELSE IF mk.exc = "IOError"
        THEN Ok(print(mk.s, "create_directory", remote_path, <<>>), FALSE)
        ELSE Raise(mk.s, mk.exc)
  IN  IF s.sftp = None THEN Raise(s, "ConnectionError")
      ELSE done(sftp_mkdir(s, plan, remote_path))

RECURSIVE _mkdir_p(_, _, _)
\* _mkdir_p that does not create the parent of remote_dir first.
_mkdir_p_no_parents(s, plan, remote_dir) ==
  LET missing(st) ==
        IF st.exc = "none" THEN Ok(st.s, FALSE)
        ELSE IF st.exc # "IOError" THEN Raise(st.s, st.exc)
        ELSE sftp_mkdir(st.s, plan, remote_dir)
  IN  IF remote_dir = Root THEN Ok(s, FALSE)
      ELSE missing(sftp_stat(s, plan, remote_dir))

_mkdir_p(s, plan, remote_dir) ==
  LET make(up) == IF up.exc # "none" THEN up
                  ELSE sftp_mkdir(up.s, plan, remote_dir)
      missing(st) ==
        IF st.exc = "none" THEN Ok(st.s, FALSE)
        ELSE IF st.exc # "IOError" THEN Raise(st.s, st.exc)
        ELSE make(IF os_path_dirname(remote_dir) # <<>>
                  THEN _mkdir_p(st.s, plan, os_path_dirname(remote_dir))
                  ELSE Ok(st.s, FALSE))
  IN  IF remote_dir = Root THEN Ok(s, FALSE)
      ELSE missing(sftp_stat(s, plan, remote_dir))

\* ensure_remote_dir that creates remote_dir without asking whether it exists.
ensure_remote_dir_no_stat(s, plan, remote_dir) ==
  sftp_mkdir(s, plan, remote_dir)

\* try: self.sftp.stat(remote_dir)  except IOError: self._mkdir_p(remote_dir)
ensure_remote_dir(s, plan, remote_dir) ==
  LET stated(st) ==
        IF st.exc = "none" THEN Ok(st.s, FALSE)
        ELSE IF st.exc = "IOError" THEN _mkdir_p(st.s, plan, remote_dir)
        ELSE Raise(st.s, st.exc)
  IN  stated(sftp_stat(s, plan, remote_dir))

\* download_file with "except Exception" in place of "except IOError".
download_file_catches_all(s, plan, remote_path, local_path) ==
  LET local_dir == os_path_dirname(local_path)
      done(r) ==
        IF r.exc = "none" THEN Ok(r.s, TRUE)
        ELSE Ok(print(r.s, "download_file", remote_path, local_path), FALSE)
      made(mk) == IF mk.exc # "none" THEN mk
                  ELSE sftp_get(mk.s, plan, remote_path, local_path)
  IN  IF s.sftp = None THEN Raise(s, "ConnectionError")
      ELSE done(made(IF local_dir # <<>> /\ ~os_path_exists(s, local_dir)
                     THEN os_makedirs(s, plan, local_dir)
                     ELSE Ok(s, FALSE)))

download_file(s, plan, remote_path, local_path) ==
  LET local_dir == os_path_dirname(local_path)
      \* except IOError
      done(r) ==
        IF r.exc = "none" THEN Ok(r.s, TRUE)
        ELSE IF r.exc = "IOError"
        THEN Ok(print(r.s, "download_file", remote_path, local_path), FALSE)
        ELSE Raise(r.s, r.exc)
      made(mk) == IF mk.exc # "none" THEN mk
                  ELSE sftp_get(mk.s, plan, remote_path, local_path)
  IN  IF s.sftp = None THEN Raise(s, "ConnectionError")
      ELSE done(made(IF local_dir # <<>> /\ ~os_path_exists(s, local_dir)
                     THEN os_makedirs(s, plan, local_dir)
                     ELSE Ok(s, FALSE)))

upload_file(s, plan, local_path, remote_path) ==
  LET remote_dir == os_path_dirname(remote_path)
      \* except Exception
      done(r) ==
        IF r.exc = "none" THEN Ok(r.s, TRUE)
        ELSE Ok(print(r.s, "upload_file", local_path, remote_path), FALSE)
      ensured(pre) == IF pre.exc # "none" THEN pre
                      ELSE sftp_put(pre.s, plan, local_path, remote_path)
  IN  IF s.sftp = None THEN Raise(s, "ConnectionError")
      ELSE done(IF ~os_path_exists(s, local_path)
                THEN Raise(s, "FileNotFoundError")
                ELSE ensured(IF remote_dir # <<>>
                             THEN ensure_remote_dir(s, plan, remote_dir)
                             ELSE Ok(s, FALSE)))

\* The loop of download_files from its i-th path on.
RECURSIVE download_files_loop(_, _, _, _, _, _)
download_files_loop(s, plan, remote_paths, local_dir, i, results) ==
  LET filename == os_path_basename(remote_paths[i])
      next(d) ==
        IF d.exc # "none" THEN Raise(d.s, d.exc)
        ELSE download_files_loop(d.s, plan, remote_paths, local_dir, i + 1,
                                 Append(results, <<filename, d.ret>>))
  IN  IF i > Len(remote_paths) THEN Ok(s, results)
      ELSE next(download_file(s, plan, remote_paths[i],
                              os_path_join(local_dir, filename)))

\* download_files that creates local_dir before it looks at self.sftp.
download_files_makes_first(s, plan, remote_paths, local_dir) ==
  LET made(mk) ==
        IF mk.exc # "none" THEN Raise(mk.s, mk.exc)
        ELSE IF mk.s.sftp = None THEN Raise(mk.s, "ConnectionError")
        ELSE download_files_loop(mk.s, plan, remote_paths, local_dir, 1, <<>>)
  IN  made(IF ~os_path_exists(s, local_dir)
           THEN os_makedirs(s, plan, local_dir)
           ELSE Ok(s, FALSE))

download_files(s, plan, remote_paths, local_dir) ==
  LET made(mk) ==
        IF mk.exc # "none" THEN Raise(mk.s, mk.exc)
        ELSE download_files_loop(mk.s, plan, remote_paths, local_dir, 1, <<>>)
  IN  IF s.sftp = None THEN Raise(s, "ConnectionError")
      ELSE made(IF ~os_path_exists(s, local_dir)
                THEN os_makedirs(s, plan, local_dir)
                ELSE Ok(s, FALSE))

RECURSIVE upload_files_loop(_, _, _, _, _, _)
\* upload_files_loop that hands every path, missing or not, to upload_file.
upload_files_loop_hands_over(s, plan, local_paths, remote_dir, i, results) ==
  LET filename == os_path_basename(local_paths[i])
      next(u) ==
        IF u.exc # "none" THEN Raise(u.s, u.exc)
        ELSE upload_files_loop(u.s, plan, local_paths, remote_dir, i + 1,
                               Append(results, <<filename, u.ret>>))
  IN  IF i > Len(local_paths) THEN Ok(s, results)
      ELSE next(upload_file(s, plan, local_paths[i],
                            os_path_join(remote_dir, filename)))

\* The loop of upload_files from its i-th path on.
upload_files_loop(s, plan, local_paths, remote_dir, i, results) ==
  LET filename == os_path_basename(local_paths[i])
      next(u) ==
        IF u.exc # "none" THEN Raise(u.s, u.exc)
        ELSE upload_files_loop(u.s, plan, local_paths, remote_dir, i + 1,
                               Append(results, <<filename, u.ret>>))
  IN  IF i > Len(local_paths) THEN Ok(s, results)
      ELSE next(IF ~os_path_exists(s, local_paths[i])
                THEN Ok(s, FALSE)
                ELSE upload_file(s, plan, local_paths[i],
                                 os_path_join(remote_dir, filename)))

upload_files(s, plan, local_paths, remote_dir) ==
  LET ensured(pre) ==
        IF pre.exc # "none" THEN Raise(pre.s, pre.exc)
        ELSE upload_files_loop(pre.s, plan, local_paths, remote_dir, 1, <<>>)
  IN  IF s.sftp = None THEN Raise(s, "ConnectionError")
      ELSE ensured(ensure_remote_dir(s, plan, remote_dir))

\* Entry into and return from a directory transfer, kept in the log so that
\* the outcome of every nested call can be read off it.
Called(s, who, src, dst) == Logged(s, "call", src, dst, who)
Returned(s, src, dst, v) == Logged(s, "return", src, dst, IF v THEN "True" ELSE "False")

RECURSIVE download_directory(_, _, _, _, _)
RECURSIVE download_directory_loop(_, _, _, _, _, _, _)

\* download_directory_loop without the test of recursive.
download_directory_loop_descends(s, plan, remote_dir, local_dir, recursive, items, i) ==
  LET remote_path == os_path_join(remote_dir, items[i])
      local_path == os_path_join(local_dir, items[i])
      next(r) ==
        IF r.exc = "none" \/ r.exc = "IOError"
        THEN download_directory_loop(r.s, plan, remote_dir, local_dir,
                                     recursive, items, i + 1)
        ELSE Raise(r.s, r.exc)
      entry(st) ==
        IF st.exc # "none" THEN st
        ELSE IF st.ret
        THEN download_directory(st.s, plan, remote_path, local_path, recursive)
        ELSE download_file(st.s, plan, remote_path, local_path)
  IN  IF i > Len(items) THEN Ok(s, TRUE)
      ELSE next(entry(sftp_stat(s, plan, remote_path)))

\* download_directory_loop that gives up when a nested transfer returns False.
download_directory_loop_propagates(s, plan, remote_dir, local_dir, recursive, items, i) ==
  LET remote_path == os_path_join(remote_dir, items[i])
      local_path == os_path_join(local_dir, items[i])
      next(r) ==
        IF r.exc = "none" \/ r.exc = "IOError"
        THEN download_directory_loop(r.s, plan, remote_dir, local_dir,
                                     recursive, items, i + 1)
        ELSE Raise(r.s, r.exc)
      nested(sub) == IF sub.exc = "none" /\ ~sub.ret THEN Raise(sub.s, "Other") ELSE sub
      entry(st) ==
        IF st.exc # "none" THEN st
        ELSE IF st.ret
        THEN IF recursive
             THEN nested(download_directory(st.s, plan, remote_path, local_path, recursive))
             ELSE Ok(st.s, FALSE)
        ELSE download_file(st.s, plan, remote_path, local_path)
  IN  IF i > Len(items) THEN Ok(s, TRUE)
      ELSE next(entry(sftp_stat(s, plan, remote_path)))

\* The loop of download_directory over the listing, from its i-th item on.
download_directory_loop(s, plan, remote_dir, local_dir, recursive, items, i) ==
  LET remote_path == os_path_join(remote_dir, items[i])
      local_path == os_path_join(local_dir, items[i])
      \* except IOError: continue
      next(r) ==
        IF r.exc = "none" \/ r.exc = "IOError"
        THEN download_directory_loop(r.s, plan, remote_dir, local_dir,
                                     recursive, items, i + 1)
        ELSE Raise(r.s, r.exc)
      entry(st) ==
        IF st.exc # "none" THEN st
        ELSE IF st.ret
        THEN IF recursive
             THEN download_directory(st.s, plan, remote_path, local_path, recursive)
             ELSE Ok(st.s, FALSE)
        ELSE download_file(st.s, plan, remote_path, local_path)
  IN  IF i > Len(items) THEN Ok(s, TRUE)
      ELSE next(entry(sftp_stat(s, plan, remote_path)))

download_directory(s, plan, remote_dir, local_dir, recursive) ==
  LET \* except Exception
      done(r) ==
        IF r.exc = "none" THEN Ok(Returned(r.s, remote_dir, local_dir, TRUE), TRUE)
        ELSE Ok(Returned(print(r.s, "download_directory", remote_dir, local_dir),
                         remote_dir, local_dir, FALSE), FALSE)
      listed(ls) ==
        IF ls.exc # "none" THEN ls
        ELSE download_directory_loop(ls.s, plan, remote_dir, local_dir,
                                     recursive, ls.ret, 1)
      made(mk) == IF mk.exc # "none" THEN mk
                  ELSE listed(sftp_listdir(mk.s, plan, remote_dir))
      start(s1) == IF ~os_path_exists(s1, local_dir)
                   THEN os_makedirs(s1, plan, local_dir)
                   ELSE Ok(s1, FALSE)
  IN  IF s.sftp = None THEN Raise(s, "ConnectionError")
      ELSE done(made(start(Called(s, "download_directory", remote_dir, local_dir))))

RECURSIVE upload_directory(_, _, _, _, _)
RECURSIVE upload_directory_loop(_, _, _, _, _, _, _)
\* upload_directory_loop that passes over the subdirectories of local_dir.
upload_directory_loop_files_only(s, plan, local_dir, remote_dir, recursive, items, i) ==
  LET local_path == os_path_join(local_dir, items[i])
      remote_path == os_path_join(remote_dir, items[i])
      next(r) ==
        IF r.exc # "none" THEN Raise(r.s, r.exc)
        ELSE upload_directory_loop(r.s, plan, local_dir, remote_dir,
                                   recursive, items, i + 1)
  IN  IF i > Len(items) THEN Ok(s, TRUE)
      ELSE next(IF os_path_isdir(s, local_path) THEN Ok(s, FALSE)
                ELSE upload_file(s, plan, local_path, remote_path))

\* The loop of upload_directory over the listing, from its i-th item on.
upload_directory_loop(s, plan, local_dir, remote_dir, recursive, items, i) ==
  LET local_path == os_path_join(local_dir, items[i])
      remote_path == os_path_join(remote_dir, items[i])
      next(r) ==
        IF r.exc = "none"
        THEN upload_directory_loop(r.s, plan, local_dir, remote_dir,
                                   recursive, items, i + 1)
        ELSE Raise(r.s, r.exc)
  IN  IF i > Len(items) THEN Ok(s, TRUE)
      ELSE next(IF os_path_isdir(s, local_path)
                THEN IF recursive
                     THEN upload_directory(s, plan, local_path, remote_path, recursive)
                     ELSE Ok(s, FALSE)
                ELSE upload_file(s, plan, local_path, remote_path))

\* upload_directory that sets up remote_dir before it looks for local_dir.
upload_directory_ensures_first(s, plan, local_dir, remote_dir, recursive) ==
  LET done(r) ==
        IF r.exc = "none" THEN Ok(Returned(r.s, local_dir, remote_dir, TRUE), TRUE)
        ELSE Ok(Returned(print(r.s, "upload_directory", local_dir, remote_dir),
                         local_dir, remote_dir, FALSE), FALSE)
      listed(ls) ==
        IF ls.exc # "none" THEN ls
        ELSE upload_directory_loop(ls.s, plan, local_dir, remote_dir,
                                   recursive, ls.ret, 1)
      ensured(pre) == IF pre.exc # "none" THEN pre
                      ELSE IF ~os_path_exists(pre.s, local_dir)
                      THEN Raise(pre.s, "FileNotFoundError")
                      ELSE listed(os_listdir(pre.s, plan, local_dir))
  IN  IF s.sftp = None THEN Raise(s, "ConnectionError")
      ELSE done(ensured(ensure_remote_dir(
                          Called(s, "upload_directory", local_dir, remote_dir),
                          plan, remote_dir)))

upload_directory(s, plan, local_dir, remote_dir, recursive) ==
  LET \* except Exception
      done(r) ==
        IF r.exc = "none" THEN Ok(Returned(r.s, local_dir, remote_dir, TRUE), TRUE)
        ELSE Ok(Returned(print(r.s, "upload_directory", local_dir, remote_dir),
                         local_dir, remote_dir, FALSE), FALSE)
      listed(ls) ==
        IF ls.exc # "none" THEN ls
        ELSE upload_directory_loop(ls.s, plan, local_dir, remote_dir,
                                   recursive, ls.ret, 1)
      ensured(pre) == IF pre.exc # "none" THEN pre
                      ELSE listed(os_listdir(pre.s, plan, local_dir))
      start(s1) == IF ~os_path_exists(s1, local_dir)
                   THEN Raise(s1, "FileNotFoundError")
                   ELSE ensured(ensure_remote_dir(s1, plan, remote_dir))
  IN  IF s.sftp = None THEN Raise(s, "ConnectionError")
      ELSE done(start(Called(s, "upload_directory", local_dir, remote_dir)))

(***************************************************************************)
(* file_manager: the commands of main().                                   *)
(***************************************************************************)
\* The loop of list_files over the names found, from the i-th on.
RECURSIVE file_manager_list_files_loop(_, _, _, _, _)
file_manager_list_files_loop(s, plan, remote_dir, files, i) ==
  LET remote_path == os_path_join(remote_dir, files[i])
      \* except Exception: print
      next(st) ==
        file_manager_list_files_loop(
          print(st.s, IF st.exc = "none" THEN "details" ELSE "no details",
                remote_path, <<>>),
          plan, remote_dir, files, i + 1)
  IN  IF i > Len(files) THEN Ok(s, TRUE)
      ELSE next(sftp_stat(s, plan, remote_path))

file_manager_list_files(s, plan, remote_dir) ==
  LET listed(ls) ==
        IF ls.exc # "none"
        THEN Ok(print(ls.s, "list_files", remote_dir, <<>>), FALSE)
        ELSE IF ls.ret = <<>> THEN Ok(ls.s, FALSE)
        ELSE file_manager_list_files_loop(ls.s, plan, remote_dir, ls.ret, 1)
  IN  listed(list_files(s, plan, remote_dir))

\* regex.search(f) for a pattern that is one literal name.
Matches(pattern, f) == pattern = <<f>>

RECURSIVE file_manager_download_files_loop(_, _, _, _, _, _)
file_manager_download_files_loop(s, plan, remote_dir, download_dir, files, i) ==
  LET remote_path == os_path_join(remote_dir, files[i])
      local_path == os_path_join(download_dir, files[i])
      next(d) ==
        IF d.exc # "none" THEN Raise(d.s, d.exc)
        ELSE file_manager_download_files_loop(
               print(d.s, IF d.ret THEN "SUCCESS" ELSE "FAILED", remote_path, local_path),
               plan, remote_dir, download_dir, files, i + 1)
  IN  IF i > Len(files) THEN Ok(s, TRUE)
      ELSE next(download_file(s, plan, remote_path, local_path))

file_manager_download_files(s, plan, remote_dir, pattern, download_dir) ==
  LET \* except Exception: print
      done(r) ==
        IF r.exc = "none" THEN Ok(r.s, FALSE)
        ELSE Ok(print(r.s, "download_files", remote_dir, download_dir), FALSE)
      chosen(files) ==
        IF pattern # <<>> THEN SelectSeq(files, LAMBDA f : Matches(pattern, f))
        ELSE files
      listed(ls) ==
        IF ls.exc # "none" THEN ls
        ELSE file_manager_download_files_loop(ls.s, plan, remote_dir, download_dir,
                                              chosen(ls.ret), 1)
      made(mk) ==
        IF mk.exc # "none" THEN Raise(mk.s, mk.exc)
        ELSE done(listed(list_files(mk.s, plan, remote_dir)))
  IN  made(os_makedirs_exist_ok(s, plan, download_dir))

file_manager_upload_file(s, plan, file_path, remote_dir) ==
  LET remote_path == os_path_join(remote_dir, os_path_basename(file_path))
      \* except Exception: print
      done(u) ==
        IF u.exc # "none"
        THEN Ok(print(u.s, "upload_file", file_path, remote_dir), FALSE)
        ELSE Ok(print(u.s, IF u.ret THEN "SUCCESS" ELSE "FAILED", file_path, remote_path),
                u.ret)
  IN  IF ~os_path_exists(s, file_path)
      THEN Ok(print(s, "File not found", file_path, <<>>), FALSE)
      ELSE done(upload_file(s, plan, file_path, remote_path))

(***************************************************************************)
(* One call of a method, and the fault plans the environment may follow.   *)
(***************************************************************************)
Call(op, src, dst, recursive, list) ==
  [op |-> op, src |-> src, dst |-> dst, recursive |-> recursive, list |-> list]

Exec(s, plan, c) ==
  CASE c.op = "upload_file" -> upload_file(s, plan, c.src, c.dst)
    [] c.op = "download_file" -> download_file(s, plan, c.src, c.dst)
    [] c.op = "upload_files" -> upload_files(s, plan, c.list, c.dst)
    [] c.op = "download_files" -> download_files(s, plan, c.list, c.dst)
    [] c.op = "upload_directory" -> upload_directory(s, plan, c.src, c.dst, c.recursive)
    [] c.op = "download_directory" -> download_directory(s, plan, c.src, c.dst, c.recursive)
    [] c.op = "create_directory" -> create_directory(s, plan, c.dst)
    [] c.op = "_mkdir_p" -> _mkdir_p(s, plan, c.dst)
    [] c.op = "list_directories" -> list_directories(s, plan, c.src)
    [] c.op = "list_files" -> list_files(s, plan, c.src)
    [] c.op = "list_all" -> list_all(s, plan, c.src)
    [] c.op = "list" -> file_manager_list_files(s, plan, c.src)
    [] c.op = "download" -> file_manager_download_files(s, plan, c.src, c.list, c.dst)
    [] c.op = "upload" -> file_manager_upload_file(s, plan, c.src, c.dst)

\* The classes of exception a failing call raises: the os module and a server
\* that answers with an error raise IOError (OSError); a dropped connection
\* makes paramiko raise SSHException or EOFError, which are not IOErrors.
Classes(op) == IF op \in LocalOps THEN {"IOError"} ELSE {"IOError", "Other"}

MaxPos(plan) ==
  IF DOMAIN plan = {} THEN 0
  ELSE CHOOSE i \in DOMAIN plan : \A j \in DOMAIN plan : j <= i

\* plan with one more failure, at a call made after those plan already fails.
ExtAt(plan, log) ==
  LET at == {i \in (MaxPos(plan) + 1)..Len(log) : log[i].op \in EndpointOps \cup LocalOps}
  IN  UNION {{[j \in DOMAIN plan \cup {i} |-> IF j = i THEN e ELSE plan[j]] :
                e \in Classes(log[i].op)} : i \in at}

PlanExt(s, c, plan) == ExtAt(plan, Exec(s, plan, c).s.log)

RECURSIVE Plans(_, _, _)
Plans(s, c, n) ==
  IF n = 0 THEN {NoFaults}
  ELSE LET prev == Plans(s, c, n - 1)
       IN  prev \cup UNION {PlanExt(s, c, q) : q \in prev}

(***************************************************************************)
(* The state machine.                                                      *)
(***************************************************************************)
Self == [sftp |-> sftp, lfs |-> lfs, rfs |-> rfs, log |-> <<>>]

NoCall == Call("none", <<>>, <<>>, FALSE, <<>>)

Record(c, plan, r) ==
  [call |-> c, plan |-> plan, exc |-> r.exc, ret |-> r.ret, log |-> r.s.log,
   lfs0 |-> lfs, rfs0 |-> rfs, sftp0 |-> sftp, transport0 |-> transport,
   live0 |-> live, opened0 |-> opened]

\* The method call c under fault plan plan.
Effect(c, plan, r) ==
  /\ lfs' = r.s.lfs
  /\ rfs' = r.s.rfs
  /\ last' = Record(c, plan, r)
  /\ UNCHANGED <<transport, sftp, opened, live>>

Do(c, plan) == Effect(c, plan, Exec(Self, plan, c))

Kinds == {"dir"} \cup Contents

(***************************************************************************)
(* SlateSFTP: the session.                                                 *)
(***************************************************************************)
Session == [transport |-> transport, sftp |-> sftp, opened |-> opened,
            live |-> live, log |-> <<>>]

LibCall(ss, what) == [ss EXCEPT !.log = Append(@, Event(what, <<>>, <<>>, "none"))]

\* close that does not set self.sftp to None.
close_keeps_sftp(ss) ==
  LET s1 == IF ss.sftp # None THEN LibCall(ss, "sftp.close") ELSE ss
  IN  IF s1.transport # None
      THEN [LibCall(s1, "transport.close") EXCEPT
              !.live = @ \ {s1.transport}, !.transport = None]
      ELSE s1

close(ss) ==
  LET s1 == IF ss.sftp # None
            THEN [LibCall(ss, "sftp.close") EXCEPT !.sftp = None]
            ELSE ss
  IN  IF s1.transport # None
      THEN [LibCall(s1, "transport.close") EXCEPT
              !.live = @ \ {s1.transport}, !.transport = None]
      ELSE s1

\* The steps of connect() that can raise, in the order they are taken.
ConnectFailures == {"Transport", "key", "auth", "from_transport"}

\* connect whose exception handler does not call close().
connect_leaves_open(ss, fail) ==
  LET id == ss.opened + 1
      s1 == [LibCall(ss, "Transport") EXCEPT
               !.transport = id, !.opened = id, !.live = @ \cup {id}]
  IN  IF fail = "Transport" THEN [s |-> LibCall(ss, "Transport"), ret |-> FALSE]
      ELSE IF fail \in ConnectFailures THEN [s |-> s1, ret |-> FALSE]
      ELSE [s |-> [s1 EXCEPT !.sftp = id], ret |-> TRUE]

connect(ss, fail) ==
  LET id == ss.opened + 1
      s1 == [LibCall(ss, "Transport") EXCEPT
               !.transport = id, !.opened = id, !.live = @ \cup {id}]
  IN  IF fail = "Transport" THEN [s |-> close(LibCall(ss, "Transport")), ret |-> FALSE]
      ELSE IF fail \in ConnectFailures THEN [s |-> close(s1), ret |-> FALSE]
      ELSE [s |-> [s1 EXCEPT !.sftp = id], ret |-> TRUE]

SessionRecord(c, r) ==
  [call |-> c, plan |-> NoFaults, exc |-> "none", ret |-> r.ret, log |-> r.s.log,
   lfs0 |-> lfs, rfs0 |-> rfs, sftp0 |-> sftp, transport0 |-> transport,
   live0 |-> live, opened0 |-> opened]

SetSession(ss) ==
  /\ transport' = ss.transport
  /\ sftp' = ss.sftp
  /\ opened' = ss.opened
  /\ live' = ss.live

SessionEffect(c, r) ==
  /\ SetSession(r.s)
  /\ last' = SessionRecord(c, r)
  /\ UNCHANGED <<lfs, rfs>>

DoConnect(fail) ==
  SessionEffect(Call("connect", <<>>, <<>>, FALSE, <<>>), connect(Session, fail))

DoClose ==
  SessionEffect(Call("close", <<>>, <<>>, FALSE, <<>>),
                [s |-> close(Session), ret |-> FALSE])

NewSession ==
  /\ transport = None
  /\ sftp = None
  /\ opened = 0
  /\ live = {}
  /\ last = [call |-> NoCall, plan |-> NoFaults, exc |-> "none", ret |-> FALSE,
             log |-> <<>>, lfs0 |-> lfs, rfs0 |-> rfs, sftp0 |-> None,
             transport0 |-> None, live0 |-> {}, opened0 |-> 0]

(***************************************************************************)
(* A program that connects as connect_to_sftp() does, calls one method and *)
(* closes the session.                                                     *)
(***************************************************************************)
Connect ==
  /\ pc = "new"
  /\ opened < MaxTransports
  /\ \E fail \in ConnectFailures \cup {"none"} :
       /\ DoConnect(fail)
       /\ pc' = IF fail = "none" THEN "ready" ELSE "exit"

Close ==
  /\ pc = "called"
  /\ DoClose
  /\ pc' = "closed"

\* The method call c, under every fault plan of at most MaxFaults failures.
Fire(c) == \E plan \in Plans(Self, c, MaxFaults) : Do(c, plan)

(***************************************************************************)
(* Transfers of directory trees.                                           *)
(***************************************************************************)
DirKinds == {"dir", "x"}
SmallTrees == {EmptyFS, [q \in {<<"a">>} |-> "dir"], [q \in {<<"a">>} |-> "x"]}

SourceDirs == {Root, <<"a">>}
DestDirs == {<<"/", "r">>, <<"a", "l">>}

DirInit ==
  /\ pc = "new"
  /\ \/ lfs \in Trees(MaxNodes, DirKinds) /\ rfs \in SmallTrees
     \/ rfs \in Trees(MaxNodes, DirKinds) /\ lfs \in SmallTrees
  /\ NewSession

UploadDirectory ==
  /\ pc = "ready"
  /\ \E src \in SourceDirs, dst \in DestDirs, recursive \in BOOLEAN :
       Fire(Call("upload_directory", src, dst, recursive, <<>>))
  /\ pc' = "called"

DownloadDirectory ==
  /\ pc = "ready"
  /\ \E src \in SourceDirs, dst \in DestDirs, recursive \in BOOLEAN :
       Fire(Call("download_directory", src, dst, recursive, <<>>))
  /\ pc' = "called"

DirNext == Connect \/ UploadDirectory \/ DownloadDirectory \/ Close

DirSpec == DirInit /\ [][DirNext]_vars

(***************************************************************************)
(* A program that uploads the local tree at "a" to a remote location and,  *)
(* when upload_directory returned True, downloads it to a local location.  *)
(***************************************************************************)

\* The file system that holds the tree t in the directory named name.
Under(name, t) ==
  [q \in {<<name>>} \cup {<<name>> \o k : k \in DOMAIN t} |->
     IF q = <<name>> THEN "dir" ELSE t[Tail(q)]]

RemoteLocations == {<<"/", "r">>, <<"r", "b", "">>}
LocalLocations == {<<"l">>, <<"l", "b">>}

RoundTripInit ==
  /\ pc = "new"
  /\ lfs \in {Under("a", t) : t \in Trees(MaxNodes, Kinds)}
  /\ rfs \in {EmptyFS, [q \in {<<"a">>} |-> "x"]}
  /\ NewSession

Upload ==
  /\ pc = "ready"
  /\ \E R \in RemoteLocations :
       Fire(Call("upload_directory", <<"a">>, R, TRUE, <<>>))
  /\ pc' = IF ~last'.ret THEN "called"
           ELSE IF DOMAIN last'.plan = {} THEN "uploaded" ELSE "uploaded_part"

Download ==
  /\ pc \in {"uploaded", "uploaded_part"}
  /\ \E L \in LocalLocations :
       Fire(Call("download_directory", last.call.dst, L, TRUE, <<>>))
  /\ pc' = IF pc = "uploaded" THEN "downloaded" ELSE "called"

RoundTripNext == Connect \/ Upload \/ Download \/ Close

RoundTripSpec == RoundTripInit /\ [][RoundTripNext]_vars

(***************************************************************************)
(* Transfers of single files.                                              *)
(***************************************************************************)
MaxEntries == 2    \* entries of the file systems a file transfer starts from

LocalSources == {<<"a">>, <<"b">>, <<"a", "b">>}
RemoteSources == {<<"/", "a">>, <<"b">>, <<"a", "b">>}
RemoteFiles == {<<"/", "a", "b", "a", "f">>, <<"a", "f">>, <<"f">>, <<"b", "">>}
LocalFiles == {<<"l", "a", "f">>, <<"a", "f">>, <<"f">>, <<"b", "">>}

FileInit ==
  /\ pc = "new"
  /\ lfs \in Trees(MaxEntries, DirKinds)
  /\ rfs \in Trees(MaxEntries + 1, DirKinds)
  /\ NewSession

UploadFile ==
  /\ pc = "ready"
  /\ \E src \in LocalSources, dst \in RemoteFiles :
       Fire(Call("upload_file", src, dst, FALSE, <<>>))
  /\ pc' = "called"

DownloadFile ==
  /\ pc = "ready"
  /\ \E src \in RemoteSources, dst \in LocalFiles :
       Fire(Call("download_file", src, dst, FALSE, <<>>))
  /\ pc' = "called"

FileNext == Connect \/ UploadFile \/ DownloadFile \/ Close

FileSpec == FileInit /\ [][FileNext]_vars

(***************************************************************************)
(* Batch transfers.                                                        *)
(***************************************************************************)
Lists(S) == UNION {[1..n -> S] : n \in 0..MaxBatch}

RemoteDirs == {<<"/", "r">>, <<"a">>, <<"r", "">>}
LocalDirs == {<<"l">>, <<"a">>, <<"a", "l">>}

BatchInit ==
  /\ pc = "new"
  /\ \/ lfs \in Trees(MaxEntries, DirKinds) /\ rfs \in SmallTrees
     \/ rfs \in Trees(MaxEntries, DirKinds) /\ lfs \in SmallTrees
  /\ NewSession

UploadFiles ==
  /\ pc = "ready"
  /\ \E local_paths \in Lists(LocalSources), remote_dir \in RemoteDirs :
       Fire(Call("upload_files", <<>>, remote_dir, FALSE, local_paths))
  /\ pc' = "called"

DownloadFiles ==
  /\ pc = "ready"
  /\ \E remote_paths \in Lists(RemoteSources), local_dir \in LocalDirs :
       Fire(Call("download_files", <<>>, local_dir, FALSE, remote_paths))
  /\ pc' = "called"

BatchNext == Connect \/ UploadFiles \/ DownloadFiles \/ Close

BatchSpec == BatchInit /\ [][BatchNext]_vars

(***************************************************************************)
(* Listings.                                                               *)
(***************************************************************************)
ListKinds == {"dir", "x", Dangling}
ListedPaths == {Root, <<"a">>, <<"a", "">>, <<"/", "b", "a">>}

ListInit ==
  /\ pc = "new"
  /\ lfs = EmptyFS
  /\ rfs \in Trees(MaxNodes, ListKinds)
  /\ NewSession

ListDirectories ==
  /\ pc = "ready"
  /\ \E remote_path \in ListedPaths :
       Fire(Call("list_directories", remote_path, <<>>, FALSE, <<>>))
  /\ pc' = "called"

ListFiles ==
  /\ pc = "ready"
  /\ \E remote_path \in ListedPaths :
       Fire(Call("list_files", remote_path, <<>>, FALSE, <<>>))
  /\ pc' = "called"

ListAll ==
  /\ pc = "ready"
  /\ \E remote_path \in ListedPaths :
       Fire(Call("list_all", remote_path, <<>>, FALSE, <<>>))
  /\ pc' = "called"

ListNext == Connect \/ ListDirectories \/ ListFiles \/ ListAll \/ Close

ListSpec == ListInit /\ [][ListNext]_vars

(***************************************************************************)
(* The set-up of destination directories: create_directory, _mkdir_p and   *)
(* each transfer method, called once on destinations that exist and on     *)
(* destinations that do not.                                               *)
(***************************************************************************)
SetupRemoteDirs == {<<"/", "a">>, <<"a", "">>, <<"a", "b">>, <<"b">>}
SetupLocalDirs == {<<"a">>, <<"a", "b">>, <<"b", "">>}
MkdirPaths == SetupRemoteDirs \cup {Root, DoubleRoot, <<"//", "a">>, <<"/", "a", "b", "a">>}
SetupLocalLists == {<<>>, <<<<"a">>>>, <<<<"b">>, <<"a">>>>}
SetupRemoteLists == {<<>>, <<<<"/", "a">>>>, <<<<"b">>, <<"/", "a">>>>}

SetupInit ==
  /\ pc = "new"
  /\ \/ lfs \in Trees(MaxEntries, DirKinds) /\ rfs \in SmallTrees
     \/ rfs \in Trees(MaxEntries, DirKinds) /\ lfs \in SmallTrees
  /\ NewSession

CreateDirectory ==
  /\ pc = "ready"
  /\ \E remote_path \in SetupRemoteDirs :
       Fire(Call("create_directory", <<>>, remote_path, FALSE, <<>>))
  /\ pc' = "called"

MkdirP ==
  /\ pc = "ready"
  /\ \E remote_dir \in MkdirPaths :
       Fire(Call("_mkdir_p", <<>>, remote_dir, FALSE, <<>>))
  /\ pc' = "called"

\* The calls of the upload methods, and those of the download methods.
SetupUploads ==
  {Call("upload_file", src, os_path_join(d, "f"), FALSE, <<>>) :
     src \in {<<"a">>, <<"b">>}, d \in SetupRemoteDirs}
    \cup {Call("upload_files", <<>>, d, FALSE, local_paths) :
            local_paths \in SetupLocalLists, d \in SetupRemoteDirs}
    \cup {Call("upload_directory", src, d, TRUE, <<>>) :
            src \in {<<"a">>, <<"b">>}, d \in SetupRemoteDirs}

SetupDownloads ==
  {Call("download_file", src, os_path_join(d, "f"), FALSE, <<>>) :
     src \in {<<"/", "a">>, <<"b">>}, d \in SetupLocalDirs}
    \cup {Call("download_files", <<>>, d, FALSE, remote_paths) :
            remote_paths \in SetupRemoteLists, d \in SetupLocalDirs}
    \cup {Call("download_directory", src, d, TRUE, <<>>) :
            src \in {<<"/", "a">>, <<"b">>}, d \in SetupLocalDirs}

SetupUpload ==
  /\ pc = "ready"
  /\ \E c \in SetupUploads : Fire(c)
  /\ pc' = "called"

SetupDownload ==
  /\ pc = "ready"
  /\ \E c \in SetupDownloads : Fire(c)
  /\ pc' = "called"

SetupNext ==
  Connect \/ CreateDirectory \/ MkdirP \/ SetupUpload \/ SetupDownload \/ Close

SetupSpec == SetupInit /\ [][SetupNext]_vars

(***************************************************************************)
(* A caller that uses one SlateSFTP object freely: connect, close and the  *)
(* methods in any order.                                                   *)
(***************************************************************************)
MethodCalls ==
  {Call("upload_file", <<"a">>, <<"/", "r", "a">>, FALSE, <<>>),
   Call("download_file", <<"/", "a">>, <<"l", "a">>, FALSE, <<>>),
   Call("list_files", Root, <<>>, FALSE, <<>>),
   Call("download_directory", Root, <<"l">>, TRUE, <<>>)}

\* Calls of the other public methods.
OtherCalls ==
  {Call("list_directories", Root, <<>>, FALSE, <<>>),
   Call("list_all", Root, <<>>, FALSE, <<>>),
   Call("create_directory", <<>>, <<"/", "r">>, FALSE, <<>>),
   Call("download_files", <<>>, <<"l">>, FALSE, <<<<"/", "a">>>>),
   Call("upload_files", <<>>, <<"/", "r">>, FALSE, <<<<"a">>>>),
   Call("upload_directory", <<"a">>, <<"/", "r">>, TRUE, <<>>)}

\* Where the caller of the object can be: it has made no call yet, its last
\* connect() returned True or False, it is in a with-block whose __enter__
\* did not connect, it has called close() once or more than once.
SessionPositions ==
  {"free", "connected", "connect_failed", "in_block", "closed", "closed_again"}

SessionInit ==
  /\ pc = "free"
  /\ lfs \in SmallTrees
  /\ rfs \in SmallTrees
  /\ NewSession

CallConnect ==
  /\ pc \in SessionPositions
  /\ opened < MaxTransports
  /\ \E fail \in ConnectFailures \cup {"none"} :
       /\ DoConnect(fail)
       /\ pc' = IF fail = "none" THEN "connected" ELSE "connect_failed"

CallClose ==
  /\ pc \in SessionPositions
  /\ DoClose
  /\ pc' = IF pc \in {"closed", "closed_again"} THEN "closed_again" ELSE "closed"

CallMethod ==
  /\ pc \in SessionPositions
  /\ \E c \in MethodCalls : Fire(c)
  /\ pc' = pc

\* with SlateSFTP(...) as sftp: __enter__ calls connect() and hands the object
\* to the block whatever connect() returned.
CallEnter ==
  /\ pc \in {"free", "closed", "closed_again"}
  /\ opened < MaxTransports
  /\ \E fail \in ConnectFailures \cup {"none"} :
       /\ DoConnect(fail)
       /\ pc' = IF fail = "none" THEN "connected" ELSE "in_block"

\* A caller that goes on to use the object although it has not connected it,
\* or has closed it.
CallUnconnected ==
  /\ pc \in SessionPositions \ {"connected"}
  /\ \E c \in OtherCalls : Fire(c)
  /\ pc' = pc

SessionNext == CallConnect \/ CallEnter \/ CallClose \/ CallMethod \/ CallUnconnected

SessionSpec == SessionInit /\ [][SessionNext]_vars

(***************************************************************************)
(* Two programs: a with-block around one method call, and main().          *)
(***************************************************************************)
Commands ==
  {Call("list", d, <<>>, FALSE, <<>>) : d \in {Root, <<"/", "a", "">>}}
    \cup {Call("download", Root, l, FALSE, pat) :
            l \in {<<"l">>, <<"a", "l">>}, pat \in {<<>>, <<"a">>}}
    \cup {Call("upload", f, d, FALSE, <<>>) :
            f \in {<<"a">>, <<"b">>}, d \in {<<"/", "a", "">>, <<"/", "r">>}}

ProgramInit ==
  /\ pc \in {"with", "new"}
  /\ lfs \in SmallTrees
  /\ rfs \in SmallTrees
  /\ NewSession

\* __enter__: connect(), whatever it returns.
Enter ==
  /\ pc = "with"
  /\ \E fail \in ConnectFailures \cup {"none"} : DoConnect(fail)
  /\ pc' = "body"

\* The body of the with-block: one method call, which may raise.
Body ==
  /\ pc = "body"
  /\ \E c \in MethodCalls : Fire(c)
  /\ pc' = IF last'.exc = "none" THEN "leaving" ELSE "raising"

\* __exit__: close(); an exception of the body goes on to the caller.
Exit ==
  /\ pc \in {"leaving", "raising"}
  /\ DoClose
  /\ pc' = IF pc = "raising" THEN "raised" ELSE "left"

\* The command of main(), inside try.
Command ==
  /\ pc = "ready"
  /\ \E c \in Commands : Fire(c)
  /\ pc' = "called"

ProgramNext == Enter \/ Body \/ Exit \/ Connect \/ Command \/ Close

\* The positions at which a program has ended: the with-block left, with or
\* without an exception, main() past its finally, main() after sys.exit(1).
Ends == {"left", "raised", "closed", "exit"}

Positions == {"with", "body", "leaving", "raising", "new", "ready", "called"} \cup Ends

\* The interpreter does not stop in the middle of a program: every step of
\* ProgramNext moves pc on, and pc does not stay where the program goes on.
MovesOn == pc \notin Ends /\ pc' \in Positions \ {pc}

ProgramSpec == ProgramInit /\ [][ProgramNext]_vars /\ WF_pc(MovesOn)

(***************************************************************************)
(* Reading the log of the last call.                                       *)
(***************************************************************************)
Log == last.log

IsTreeCall == last.call.op \in {"upload_directory", "download_directory"}

\* The number of directory transfers that are running when event i is logged.
Depth(i) ==
  Cardinality({j \in 1..i : Log[j].op = "call"})
    - Cardinality({j \in 1..(i - 1) : Log[j].op = "return"})

Max(S) == CHOOSE i \in S : \A j \in S : j <= i
Min(S) == CHOOSE i \in S : \A j \in S : i <= j

\* The entry into the directory transfer that logs event i, and its return.
FrameStart(i) == Max({j \in 1..i : Log[j].op = "call" /\ Depth(j) = Depth(i)})
FrameEnd(i) == Min({k \in i..Len(Log) : Log[k].op = "return" /\ Depth(k) = Depth(i)})

\* Event i belongs to the directory transfer entered at event c itself, not
\* to a transfer nested in it.
InFrame(i, c) == c <= i /\ i <= FrameEnd(c) /\ Depth(i) = Depth(c)

Prefixes(key) == {SubSeq(key, 1, n) : n \in 0..Len(key)}

NewDirs(old, new) == {q \in DOMAIN new \ DOMAIN old : new[q] = "dir"}

\* The entries of the source directory of the last call that are not
\* directories, as path strings.
SourceFiles ==
  LET fs == IF last.call.op = "upload_directory" THEN last.lfs0 ELSE last.rfs0
      key == Resolve(last.call.src)
  IN  {os_path_join(last.call.src, n) :
         n \in {m \in TreeNames : IsFile(NodeAt(fs, Append(key, m)))}}

Transfers == {i \in DOMAIN Log : Log[i].op \in {"get", "put"}}

\* The environment injected no failure into the last call, and none of its
\* calls that change a file system failed.
NothingFailed ==
  /\ DOMAIN last.plan = {}
  /\ \A i \in DOMAIN Log :
       Log[i].op \in (EndpointOps \cup LocalOps) \ {"stat"} => Log[i].res = "none"

(***************************************************************************)
(* C2: with recursive=False a tree transfer hands only non-directory       *)
(* immediate children of the source directory to get/put (all of them when *)
(* nothing fails), lists no directory but the source, enters no nested     *)
(* transfer, and creates no directory on the destination side other than   *)
(* the destination directory and its missing ancestors.                    *)
(***************************************************************************)
C2_NonRecursive ==
  (IsTreeCall /\ ~last.call.recursive) =>
    LET dest0 == IF last.call.op = "upload_directory" THEN last.rfs0 ELSE last.lfs0
        dest == IF last.call.op = "upload_directory" THEN rfs ELSE lfs
    IN  /\ \A i \in Transfers :
             /\ Log[i].path \in SourceFiles
             /\ Log[i].path2 = os_path_join(last.call.dst, os_path_basename(Log[i].path))
        /\ (last.ret /\ NothingFailed)
             => /\ {Log[i].path : i \in Transfers} = SourceFiles
                /\ \A f \in SourceFiles :
                     NodeAt(dest, Resolve(os_path_join(last.call.dst, os_path_basename(f))))
                       = Lookup(IF last.call.op = "upload_directory"
                                THEN last.lfs0 ELSE last.rfs0, f)
        /\ Cardinality({i \in DOMAIN Log : Log[i].op = "call"}) = 1
        /\ \A i \in DOMAIN Log :
             Log[i].op \in {"listdir", "os_listdir"} => Log[i].path = last.call.src
        /\ \A i \in DOMAIN Log :
             Log[i].op \in {"mkdir", "makedirs"} =>
               Resolve(Log[i].path) \in Prefixes(Resolve(last.call.dst))
        /\ NewDirs(dest0, dest) \subseteq Prefixes(Resolve(last.call.dst))

\* A non-recursive download of a directory that holds a file and a
\* subdirectory with a file in it: the file arrived, the subdirectory did not.
C2_Witness ==
  /\ last.call.op = "download_directory"
  /\ ~last.call.recursive
  /\ last.call.src = Root
  /\ last.ret
  /\ last.rfs0 = [q \in {<<"a">>, <<"a", "b">>, <<"b">>} |->
                    IF q = <<"a">> THEN "dir" ELSE "x"]
  /\ NodeAt(lfs, Resolve(os_path_join(last.call.dst, "b"))) = "x"
  /\ NodeAt(lfs, Resolve(os_path_join(last.call.dst, "a"))) = "none"

(***************************************************************************)
(* C6 and C7: the result of a tree transfer and of its nested calls.       *)
(***************************************************************************)
\* The top-level call found its source, has its destination directory and
\* obtained the listing of the source: the listing is the last of these steps.
SetupOk ==
  \E i \in DOMAIN Log :
    /\ Log[i].op \in {"listdir", "os_listdir"}
    /\ Depth(i) = 1
    /\ Log[i].path = last.call.src
    /\ Log[i].res = "none"

\* A stat or a get made by the top-level call for one of its own entries
\* raised an exception that is not an IOError.
TopLevelAbort ==
  \E i \in DOMAIN Log :
    Depth(i) = 1 /\ Log[i].op \in {"stat", "get"} /\ Log[i].res = "Other"

\* C6 as stated: the top-level result is True exactly when the set-up of the
\* top-level directories raised no error.
C6_Original == IsTreeCall => (last.ret <=> SetupOk)

\* C6, amended: upload_directory returns True exactly when the set-up raised
\* no error; download_directory returns True exactly when the set-up raised
\* no error and no stat or get of a top-level entry raised an exception that
\* is not an IOError.  A transfer that fails with an IOError, a failed upload
\* and a nested call that returns False leave the result True.
C6_TopLevelResult ==
  IsTreeCall =>
    (last.ret <=>
       (SetupOk /\ (last.call.op = "download_directory" => ~TopLevelAbort)))

\* A nested transfer returned False and the top-level call returned True.
C6_Witness ==
  /\ IsTreeCall
  /\ last.ret
  /\ \E i \in DOMAIN Log :
       Log[i].op = "return" /\ Log[i].res = "False" /\ Depth(i) = 2
  /\ \E i \in DOMAIN Log :
       Log[i].op \in {"get", "put"} /\ Log[i].res = "none"

ParentCall(c) == Max({j \in 1..(c - 1) : Log[j].op = "call" /\ Depth(j) = Depth(c) - 1})

Dest == IF last.call.op = "upload_directory" THEN rfs ELSE lfs
Source0 == IF last.call.op = "upload_directory" THEN last.lfs0 ELSE last.rfs0

\* What was transferred before event i is still in place when the call ends.
NoRollback(i) ==
  /\ \A k \in 1..(i - 1) :
       /\ (Log[k].op \in {"get", "put"} /\ Log[k].res = "none") =>
            NodeAt(Dest, Resolve(Log[k].path2)) = Lookup(Source0, Log[k].path)
       /\ (Log[k].op \in {"mkdir", "makedirs"} /\ Log[k].res = "none") =>
            NodeAt(Dest, Resolve(Log[k].path)) = "dir"
  /\ DOMAIN last.lfs0 \subseteq DOMAIN lfs
  /\ DOMAIN last.rfs0 \subseteq DOMAIN rfs

\* The failure at event i, made in the nested transfer S, ends S and nothing
\* else: S attempts nothing more and returns False, nothing is rolled back,
\* and the transfer that called S, unless a call of its own fails the same
\* way, goes on to its remaining entries and returns True.
Contained(i) ==
  LET c == FrameStart(i)
      e == FrameEnd(i)
      p == ParentCall(c)
  IN  /\ Log[e].res = "False"
      /\ \A k \in (i + 1)..(e - 1) : Log[k].op = "print"
      /\ NoRollback(i)
      /\ (~\E k \in DOMAIN Log : InFrame(k, p) /\ Log[k].res = "Other") =>
           /\ Log[FrameEnd(p)].res = "True"
           /\ last.call.op = "download_directory" =>
                \A n \in TreeNames :
                  NodeAt(last.rfs0, Append(Resolve(Log[p].path), n)) # "none" =>
                    \E k \in DOMAIN Log :
                      /\ InFrame(k, p)
                      /\ Log[k].op = "stat"
                      /\ Log[k].path = os_path_join(Log[p].path, n)

\* A call made by a nested transfer raised an exception of a dropped
\* connection.
NestedFailures == {i \in DOMAIN Log : Log[i].res = "Other" /\ Depth(i) >= 2}

\* Every transfer that returns False had a call of its own fail, or was
\* given a local source that does not exist.
OwnFailure ==
  \A r \in DOMAIN Log :
    (Log[r].op = "return" /\ Log[r].res = "False") =>
      \/ \E k \in DOMAIN Log :
           InFrame(k, FrameStart(r)) /\ Log[k].res \in {"IOError", "Other"}
             /\ Log[k].op \in EndpointOps \cup LocalOps
      \/ /\ last.call.op = "upload_directory"
         /\ Lookup(last.lfs0, Log[r].path) = "none"

\* A transfer that has the listing of its source returns True, whatever
\* fails afterwards, unless it is a download and one of its own calls raises
\* an exception that is not an IOError.
Absorbed ==
  \A k \in DOMAIN Log :
    (/\ Log[k].op \in {"os_listdir", "listdir"}
     /\ Log[k].res = "none"
     /\ last.call.op = "download_directory" =>
          ~\E j \in DOMAIN Log : InFrame(j, FrameStart(k)) /\ Log[j].res = "Other")
      => Log[FrameEnd(k)].res = "True"

\* C7 as stated, for both walks: a connectivity failure in a nested
\* subdirectory S ends S, which returns False, and nothing else.
C7_Original ==
  IsTreeCall => (OwnFailure /\ \A i \in NestedFailures : Contained(i))

\* C7, amended: in both walks nothing transferred before a failure in a
\* nested subdirectory S is removed or altered, and a call returns False
\* only for a failure of its own.  In download_directory, when a call made
\* for S raises an exception that is not an IOError, the entries of S not yet
\* processed are abandoned and the call for S returns False, while the
\* calling transfer goes on to its remaining entries.  Every other failure
\* after the listing of S leaves the result of the call for S True.
C7_Containment ==
  IsTreeCall =>
    /\ OwnFailure
    /\ Absorbed
    /\ \A i \in NestedFailures : NoRollback(i)
    /\ last.call.op = "download_directory" =>
         \A i \in NestedFailures : Contained(i)

\* The download of a/, b/a, b/b loses the connection at the get of b/a: the
\* subdirectory a was completed before and stays, b/b is abandoned, the call
\* for b returns False and the top-level call True.
C7_Witness ==
  /\ last.call = Call("download_directory", Root, <<"/", "r">>, TRUE, <<>>)
  /\ last.rfs0 = [q \in {<<"a">>, <<"b">>, <<"b", "a">>, <<"b", "b">>} |->
                    IF Len(q) = 1 THEN "dir" ELSE "x"]
  /\ \E i \in NestedFailures : Log[i].op = "get" /\ Log[i].path = <<"/", "b", "a">>
  /\ NodeAt(lfs, <<"r", "a">>) = "dir"
  /\ NodeAt(lfs, <<"r", "b", "b">>) = "none"
  /\ \E i \in DOMAIN Log :
       Log[i].op = "return" /\ Log[i].path = <<"/", "b">> /\ Log[i].res = "False"
  /\ last.ret

(***************************************************************************)
(* C1: the round trip.                                                     *)
(***************************************************************************)
\* The upload before the download now recorded in last ran without an
\* injected failure and returned True (pc), and so did the download.
RoundTripDone == pc = "downloaded" /\ last.ret /\ DOMAIN last.plan = {}

\* C1: when the tree T at "a" is uploaded to a fresh remote location R and R
\* is then downloaded to a fresh local location L, and no call to the
\* endpoint or to the local file system fails in between, L is a directory
\* and the tree below it has exactly the directories, the file names and the
\* file contents of T; T itself and R are as the upload left them.
C1_RoundTrip ==
  (RoundTripDone /\ NothingFailed) =>
    /\ NodeAt(lfs, Resolve(last.call.dst)) = "dir"
    /\ Subtree(lfs, Resolve(last.call.dst)) = Subtree(last.lfs0, <<"a">>)
    /\ Subtree(lfs, <<"a">>) = Subtree(last.lfs0, <<"a">>)
    /\ Subtree(rfs, Resolve(last.call.src)) = Subtree(last.lfs0, <<"a">>)

\* A tree with a file, an empty directory and a directory that holds a file of
\* another content has made the round trip.
C1_Witness ==
  /\ RoundTripDone
  /\ NothingFailed
  /\ \E d \in TreeNames, f \in TreeNames :
       /\ d # f
       /\ NodeAt(last.lfs0, <<"a", d>>) = "dir"
       /\ NodeAt(last.lfs0, <<"a", f>>) = "x"
       /\ NodeAt(last.lfs0, <<"a", d, f>>) = "y"
       /\ NodeAt(lfs, Resolve(last.call.dst) \o <<d, f>>) = "y"
  /\ \E i \in DOMAIN Log : Log[i].op = "makedirs" /\ Len(Resolve(Log[i].path)) = 2

(***************************************************************************)
(* C3: upload_file creates the missing ancestors of the remote path.       *)
(***************************************************************************)
\* The remote entry key exists when event i of the last call is logged: it
\* was there before the call, or a mkdir of this call has made it.
ExistsAt(i, key) ==
  \/ NodeAt(last.rfs0, key) # "none"
  \/ \E j \in 1..(i - 1) :
       Log[j].op = "mkdir" /\ Log[j].res = "none" /\ Resolve(Log[j].path) = key

\* The directories on the way to the parent directory of the remote path.
Chain == Prefixes(Resolve(os_path_dirname(last.call.dst))) \ {<<>>}

Mkdirs == {i \in DOMAIN Log : Log[i].op = "mkdir"}

\* The local source is a file, no failure is injected, and what exists of the
\* remote path is a directory up to the parent and no directory at the path.
Uploadable ==
  /\ DOMAIN last.plan = {}
  /\ IsFile(Lookup(last.lfs0, last.call.src))
  /\ \A k \in Chain : NodeAt(last.rfs0, k) \in {"none", "dir"}
  /\ ~TrailingSlash(last.call.dst)
  /\ NodeAt(last.rfs0, Resolve(last.call.dst)) # "dir"

\* C3: upload_file issues mkdir only for directories on the way to the remote
\* parent, each when its own parent exists, outermost first, and issues the
\* put only when the whole chain exists; when nothing stands in the way it
\* creates exactly the missing directories of the chain, stores the file and
\* returns True.
C3_MkdirP ==
  last.call.op = "upload_file" =>
    /\ \A i \in Mkdirs :
         /\ Resolve(Log[i].path) \in Chain
         /\ ExistsAt(i, Front(Resolve(Log[i].path)))
    /\ \A i \in Mkdirs : \A j \in Mkdirs :
         i < j => Len(Resolve(Log[i].path)) < Len(Resolve(Log[j].path))
    /\ \A i \in DOMAIN Log :
         Log[i].op = "put" => \A k \in Chain : ExistsAt(i, k)
    /\ Uploadable =>
         /\ last.ret
         /\ \A k \in Chain : NodeAt(rfs, k) = "dir"
         /\ {Resolve(Log[i].path) : i \in {j \in Mkdirs : Log[j].res = "none"}}
              = Chain \ DOMAIN last.rfs0
         /\ NodeAt(rfs, Resolve(last.call.dst)) = Lookup(last.lfs0, last.call.src)
         /\ \A q \in DOMAIN last.rfs0 \ {Resolve(last.call.dst)} :
              NodeAt(rfs, q) = last.rfs0[q]

\* An upload to a/b/a/f on an endpoint where a is missing: three directories
\* were created, then the file.
C3_Witness ==
  /\ last.call.op = "upload_file"
  /\ last.call.dst = <<"/", "a", "b", "a", "f">>
  /\ last.rfs0 = EmptyFS
  /\ last.ret
  /\ Cardinality({i \in Mkdirs : Log[i].res = "none"}) = 3
  /\ NodeAt(rfs, <<"a", "b", "a", "f">>) = "x"

(***************************************************************************)
(* C4 and C5: the report of a batch transfer.                              *)
(***************************************************************************)
IsBatchCall == last.call.op \in {"upload_files", "download_files"}

Items == last.call.list

Report == last.ret

\* Where item i of the batch goes.
Target(i) == os_path_join(last.call.dst, os_path_basename(Items[i]))

\* Item i was handed to upload_file / download_file.
Attempted(i) ==
  \E k \in DOMAIN Log :
    Log[k].op \in {"get", "put", "print"} /\ Log[k].path = Items[i]
      /\ Log[k].path2 = Target(i)

\* C4 as stated: a batch transfer returns a report with one entry per source,
\* in order, each naming the base name of its source; a missing source and a
\* failed transfer are recorded as failures and keep no later item from
\* being attempted; what is recorded as transferred is at the destination.
C4_Original ==
  IsBatchCall =>
    /\ last.exc = "none"
    /\ Len(Report) = Len(Items)
    /\ \A i \in DOMAIN Items :
         /\ Report[i][1] = os_path_basename(Items[i])
         /\ Report[i][2] =>
              IsFile(NodeAt(IF last.call.op = "upload_files" THEN rfs ELSE lfs,
                            Resolve(Target(i))))
         /\ Lookup(IF last.call.op = "upload_files" THEN last.lfs0 ELSE last.rfs0,
                   Items[i]) = "none" => ~Report[i][2]
         /\ Attempted(i)
              \/ (last.call.op = "upload_files" /\ Lookup(last.lfs0, Items[i]) = "none")

\* The failed items of the report.
Failed == {i \in DOMAIN Items : ~Report[i][2]}

\* C5 as stated: the entry of every failed item carries an error detail, and
\* that of an item whose source does not exist is "source not found".
C5_Original ==
  (IsBatchCall /\ last.exc = "none") =>
    \A i \in Failed :
      /\ Len(Report[i]) = 3
      /\ Lookup(IF last.call.op = "upload_files" THEN last.lfs0 ELSE last.rfs0,
                Items[i]) = "none" => Report[i][3] = "source not found"

\* C5, amended: every entry of the report is the pair (base name, success)
\* and carries no error detail.  The reason of a failure is only printed, by
\* upload_file / download_file, once for each failed item that was handed to
\* them; an item of upload_files whose local source does not exist is
\* recorded as failed and nothing is printed for it.
C5_FailureReport ==
  (IsBatchCall /\ last.exc = "none") =>
    /\ Len(Report) = Len(Items)
    /\ \A i \in DOMAIN Items :
         /\ Len(Report[i]) = 2
         /\ Report[i][1] = os_path_basename(Items[i])
    /\ \A p \in {Items[i] : i \in DOMAIN Items} :
         Cardinality({k \in DOMAIN Log : Log[k].op = "print" /\ Log[k].path = p})
           = IF last.call.op = "upload_files" /\ Lookup(last.lfs0, p) = "none"
             THEN 0
             ELSE Cardinality({i \in Failed : Items[i] = p})

\* An upload of three items, the second of which does not exist locally: it
\* is recorded as failed, nothing is printed, the others are transferred.
C5_Witness ==
  /\ last.call.op = "upload_files"
  /\ last.exc = "none"
  /\ Len(Items) = 3
  /\ Failed = {2}
  /\ Lookup(last.lfs0, Items[2]) = "none"
  /\ \A k \in DOMAIN Log : Log[k].op # "print"

(***************************************************************************)
(* C10: the three listings.                                                *)
(***************************************************************************)
\* The session and the file systems as they were before the last call.
Before == [sftp |-> last.sftp0, lfs |-> last.lfs0, rfs |-> last.rfs0, log |-> <<>>]

Range(seq) == {seq[i] : i \in DOMAIN seq}

\* seq lists elements of whole, each once, in the order whole has them.
KeepsOrder(seq, whole) ==
  /\ Range(seq) \subseteq Range(whole)
  /\ \A i \in DOMAIN seq : \A j \in DOMAIN seq :
       i < j => \E m \in DOMAIN whole : \E n \in DOMAIN whole :
                  m < n /\ whole[m] = seq[i] /\ whole[n] = seq[j]

\* The names the endpoint lists for the path of the last call, and those of
\* them whose stat succeeded in the last call.
Listed == Listing(last.rfs0, Resolve(last.call.src))

Statted ==
  {n \in Range(Listed) :
     \E k \in DOMAIN Log :
       /\ Log[k].op = "stat"
       /\ Log[k].path = os_path_join(last.call.src, n)
       /\ Log[k].res = "none"}

\* C10: list_all returns (D, F) with D what list_directories and F what
\* list_files return for the same path in the same state of the endpoint; D
\* and F are disjoint, keep the order of the endpoint's listing, hold only
\* names of immediate children, and together are exactly the listed entries
\* whose stat succeeds.  An entry whose stat raises an IOError is left out of
\* all three results and makes none of the three calls fail.
C10_Partition ==
  /\ last.call.op = "list_all" =>
       LET dirs == list_directories(Before, last.plan, last.call.src)
           files == list_files(Before, last.plan, last.call.src)
       IN  /\ dirs.exc = last.exc
           /\ files.exc = last.exc
           /\ last.exc = "none" =>
                /\ last.ret[1] = dirs.ret
                /\ last.ret[2] = files.ret
                /\ Range(last.ret[1]) \cap Range(last.ret[2]) = {}
                /\ KeepsOrder(last.ret[1], Listed)
                /\ KeepsOrder(last.ret[2], Listed)
                /\ Range(last.ret[1]) \cup Range(last.ret[2]) = Statted
                /\ \A n \in Range(last.ret[1]) :
                     NodeAt(last.rfs0, Append(Resolve(last.call.src), n)) = "dir"
                /\ \A n \in Range(last.ret[2]) :
                     IsFile(NodeAt(last.rfs0, Append(Resolve(last.call.src), n)))
  /\ last.call.op \in {"list_directories", "list_files"} =>
       /\ last.exc = "none" =>
            /\ KeepsOrder(last.ret, Listed)
            /\ Range(last.ret) =
                 {n \in Statted :
                    (NodeAt(last.rfs0, Append(Resolve(last.call.src), n)) = "dir")
                      <=> (last.call.op = "list_directories")}
  /\ last.call.op \in {"list_directories", "list_files", "list_all"} =>
       /\ \A k \in DOMAIN Log :
            Log[k].op = "stat" =>
              \E n \in Range(Listed) : Log[k].path = os_path_join(last.call.src, n)
       /\ (/\ \A k \in DOMAIN Log : Log[k].res \in {"none", "IOError"}
           /\ Log # <<>>
           /\ Log[1].res = "none")
            => last.exc = "none"

\* The listing of a directory that holds a subdirectory with an entry of its
\* own, a file and, for one of the two names, an entry whose stat fails.
C10_Witness ==
  /\ last.call.op = "list_all"
  /\ last.exc = "none"
  /\ \E k \in DOMAIN Log : Log[k].op = "stat" /\ Log[k].res = "IOError"
  /\ Len(last.ret[1]) + Len(last.ret[2]) = 1
  /\ Len(Listed) = 2

(***************************************************************************)
(* C8 and C9: closing the session.                                         *)
(***************************************************************************)
LibCalls == {Log[i].op : i \in DOMAIN Log}

\* C8: whatever the state of the session, close() raises nothing, closes the
\* sftp handle and the transport that are set, each once, and leaves both
\* attributes None; when both are None already, as after a close(), it makes
\* no call to the library and changes nothing.
C8_CloseIdempotent ==
  last.call.op = "close" =>
    /\ last.exc = "none"
    /\ sftp = None
    /\ transport = None
    /\ ("sftp.close" \in LibCalls) <=> (last.sftp0 # None)
    /\ ("transport.close" \in LibCalls) <=> (last.transport0 # None)
    /\ Len(Log) = Cardinality(LibCalls)
    /\ live = last.live0 \ {last.transport0}
    /\ opened = last.opened0
    /\ lfs = last.lfs0
    /\ rfs = last.rfs0
    /\ pc = "closed_again" => (Log = <<>> /\ live = last.live0)

\* A session that was connected has been closed twice.
C8_Witness ==
  /\ pc = "closed_again"
  /\ last.call.op = "close"
  /\ opened > 0
  /\ live = {}

\* When connect() returns False, or a program has reached its end, no
\* transport is open and both attributes are None.
C9_Released ==
  /\ (last.call.op = "connect" /\ ~last.ret) =>
       /\ transport = None
       /\ sftp = None
       /\ live = last.live0 \ {last.transport0}
       /\ opened > last.opened0 => Log[Len(Log)].op = "transport.close"
  /\ pc \in Ends => (live = {} /\ transport = None /\ sftp = None)
  /\ pc \in {"left", "raised", "closed"} => last.call.op = "close"

\* C9: a transport that connect() opens is closed by connect() itself when
\* it fails; the with-block has run close() when it is left, with or without
\* an exception of its body; main() has run close() when its command is
\* over, and exits with nothing open when the connection failed.  Every
\* transport that is open is closed later on.
C9_Release == []C9_Released /\ ((live # {}) ~> (live = {}))

\* The body of a with-block raised while the session was open, and the
\* block was left with the session closed.
C9_Witness ==
  /\ pc = "raised"
  /\ last.call.op = "close"
  /\ last.transport0 # None
  /\ live = {}

(***************************************************************************)
(* C11: the set-up of a destination directory that exists already.         *)
(***************************************************************************)
UploadOps == {"upload_file", "upload_files", "upload_directory"}
DownloadOps == {"download_file", "download_files", "download_directory"}

\* The directory the last call needs on the destination side.
DestDir ==
  IF last.call.op \in {"upload_file", "download_file"}
  THEN os_path_dirname(last.call.dst)
  ELSE last.call.dst

\* The file system of the destination side, before and after the last call.
DestBefore == IF last.call.op \in DownloadOps THEN last.lfs0 ELSE last.rfs0
DestAfter == IF last.call.op \in DownloadOps THEN lfs ELSE rfs

\* The last call was made on a live session, reached the set-up of its
\* destination directory (upload_file and upload_directory look for their
\* local source first), the directory was there, and every stat of it that
\* the call made was answered.
OnExistingDir ==
  /\ last.sftp0 # None
  /\ last.call.op \in {"upload_file", "upload_directory"} =>
       Lookup(last.lfs0, last.call.src) # "none"
  /\ DestDir # <<>>
  /\ Lookup(DestBefore, DestDir) = "dir"
  /\ \A k \in DOMAIN Log :
       (Log[k].op = "stat" /\ Resolve(Log[k].path) = Resolve(DestDir))
         => Log[k].res = "none"

Failures ==
  {k \in DOMAIN Log :
     Log[k].op \in EndpointOps \cup LocalOps /\ Log[k].res \in {"IOError", "Other"}}

\* The last call raised, or returned False where it returns a truth value.
ReportsFailure ==
  \/ last.exc # "none"
  \/ /\ last.call.op \in {"upload_file", "download_file", "upload_directory",
                          "download_directory", "create_directory"}
     /\ ~last.ret

\* The set-up was no error: no mkdir and no makedirs was issued for the
\* directory or for an ancestor of it, whatever the call raised or reported
\* as failed is owed to a later call that failed, and every entry of the
\* destination side is as it was, except where a get or a put of this call
\* wrote, while every new entry was made by a transfer or by the mkdir of
\* another directory.
NoError ==
  /\ \A k \in DOMAIN Log :
       Log[k].op \in {"mkdir", "makedirs"} =>
         Resolve(Log[k].path) \notin Prefixes(Resolve(DestDir))
  /\ ReportsFailure => Failures # {}
  /\ \A q \in DOMAIN DestBefore :
       /\ q \in DOMAIN DestAfter
       /\ \/ DestAfter[q] = DestBefore[q]
          \/ \E k \in Transfers : Resolve(Log[k].path2) = q
  /\ \A q \in DOMAIN DestAfter \ DOMAIN DestBefore :
       \/ \E k \in Transfers : Resolve(Log[k].path2) = q
       \/ \E k \in DOMAIN Log :
            Log[k].op \in {"mkdir", "makedirs"} /\ q \in Prefixes(Resolve(Log[k].path))

\* C11 as stated: create_directory, _mkdir_p and the set-up step of the six
\* transfer methods, run on a destination directory that exists, raise
\* nothing, report no failure, issue no mkdir for it and leave its contents
\* as they were.
C11_Original ==
  (/\ last.call.op \in UploadOps \cup DownloadOps \cup {"_mkdir_p", "create_directory"}
   /\ OnExistingDir)
    => /\ NoError
       /\ last.call.op \in {"_mkdir_p", "create_directory"} =>
            (last.exc = "none" /\ rfs = last.rfs0)
       /\ last.call.op = "create_directory" => last.ret

\* C11, amended: _mkdir_p and the set-up step of upload_file, upload_files,
\* upload_directory, download_file, download_files and download_directory,
\* run on a destination directory that exists and whose stat is answered,
\* raise nothing, report no failure, issue no mkdir (makedirs) for the
\* directory or its ancestors and leave its contents as they were;
\* _mkdir_p then makes at most the one stat.  create_directory is not such a
\* set-up: it issues mkdir without looking, the endpoint refuses the mkdir of
\* a directory that exists, and create_directory prints the failure and
\* returns False (it raises only what is not an IOError); the directory and
\* its contents stay as they were.
C11_Idempotent ==
  /\ (last.call.op \in UploadOps \cup DownloadOps \cup {"_mkdir_p"} /\ OnExistingDir)
       => /\ NoError
          /\ last.call.op = "_mkdir_p" =>
               /\ last.exc = "none"
               /\ rfs = last.rfs0
               /\ Len(Log) <= 1
  /\ (last.call.op = "create_directory" /\ OnExistingDir)
       => /\ Len(Log) >= 1
          /\ Log[1] = Event("mkdir", last.call.dst, <<>>, Log[1].res)
          /\ Log[1].res \in {"IOError", "Other"}
          /\ \A k \in DOMAIN Log : k > 1 => Log[k].op = "print"
          /\ last.exc = (IF Log[1].res = "IOError" THEN "none" ELSE "Other")
          /\ last.ret = FALSE
          /\ rfs = last.rfs0

\* upload_files has put a file into a remote directory that was there and
\* held an entry: no mkdir was issued and the entry is as it was.
C11_Witness ==
  /\ last.call.op = "upload_files"
  /\ OnExistingDir
  /\ last.exc = "none"
  /\ \E k \in Transfers : Log[k].res = "none"
  /\ \E q \in DOMAIN last.rfs0 :
       /\ Len(q) = Len(Resolve(DestDir)) + 1
       /\ Front(q) = Resolve(DestDir)
       /\ q \in DOMAIN rfs /\ rfs[q] = last.rfs0[q]

(***************************************************************************)
(* C12: no transfer and no mkdir is repeated within one call.              *)
(***************************************************************************)
IsTransferCall == last.call.op \in UploadOps \cup DownloadOps

\* How often the path string p may be handed to get/put by the last call:
\* once for each time a batch names it, once in a single or a tree transfer.
Multiplicity(p) ==
  IF IsBatchCall THEN Cardinality({i \in DOMAIN Items : Items[i] = p}) ELSE 1

MakesDir == {k \in DOMAIN Log : Log[k].op \in {"mkdir", "makedirs"}}

\* seq is whole with some of its elements left out.
RECURSIVE IsSubSeq(_, _)
IsSubSeq(seq, whole) ==
  IF seq = <<>> THEN TRUE
  ELSE IF whole = <<>> THEN FALSE
  ELSE IF Head(seq) = Head(whole) THEN IsSubSeq(Tail(seq), Tail(whole))
  ELSE IsSubSeq(seq, Tail(whole))

\* The paths handed to get/put by the last call, in the order of the log.
RECURSIVE TransferredFrom(_)
TransferredFrom(k) ==
  IF k > Len(Log) THEN <<>>
  ELSE IF k \in Transfers THEN <<Log[k].path>> \o TransferredFrom(k + 1)
  ELSE TransferredFrom(k + 1)

NamePos(n) == CHOOSE i \in DOMAIN NameOrder : NameOrder[i] = n

\* The events at which the directory transfer entered at event c takes up an
\* entry of its listing: a get or a put of its own, or the entry into a
\* nested transfer.
Attempts(c) ==
  {k \in DOMAIN Log :
     \/ k \in Transfers /\ InFrame(k, c)
     \/ Log[k].op = "call" /\ Depth(k) = Depth(c) + 1 /\ k > c /\ ParentCall(k) = c}

\* Each source is handed to get/put at most once, and the entries of a
\* listing (the items of a batch) are taken up in their order.
NoRepeatedTransfer ==
  /\ \A p \in {Log[k].path : k \in Transfers} :
       Cardinality({k \in Transfers : Log[k].path = p}) <= Multiplicity(p)
  /\ IsBatchCall => IsSubSeq(TransferredFrom(1), Items)
  /\ IsTreeCall =>
       \A c \in DOMAIN Log :
         Log[c].op = "call" =>
           \A i \in Attempts(c) : \A j \in Attempts(c) :
             i < j => NamePos(os_path_basename(Log[i].path))
                        < NamePos(os_path_basename(Log[j].path))

\* C12 as stated: within one call of a transfer operation each source file
\* is handed to get/put at most once, mkdir (makedirs) is issued at most
\* once for each destination directory, whether or not an attempt fails,
\* and the entries of a directory are attempted one at a time in listing
\* order.
C12_Original ==
  IsTransferCall =>
    /\ NoRepeatedTransfer
    /\ \A i \in MakesDir : \A j \in MakesDir :
         i # j => Resolve(Log[i].path) # Resolve(Log[j].path)

(***************************************************************************)
(* C13: the methods on a session that is not connected.                    *)
(***************************************************************************)
PublicOps ==
  UploadOps \cup DownloadOps
    \cup {"list_directories", "list_files", "list_all", "create_directory"}

\* C13: wherever the caller has no live session (it has not called connect,
\* connect returned False, it is in a with-block whose connect failed, it has
\* called close) self.sftp is None, and every listing, create_directory and
\* transfer method called there raises ConnectionError before anything else:
\* the call makes no call to the endpoint or to the os module, prints
\* nothing, and leaves both file systems and the session as they were.
C13_RequiresSession ==
  /\ pc \in SessionPositions \ {"connected"} => sftp = None
  /\ (last.call.op \in PublicOps /\ pc \in SessionPositions \ {"connected"})
       => /\ last.sftp0 = None
          /\ last.exc = "ConnectionError"
          /\ Log = <<>>
          /\ lfs = last.lfs0
          /\ rfs = last.rfs0
          /\ <<transport, sftp, live, opened>>
               = <<last.transport0, last.sftp0, last.live0, last.opened0>>
  /\ (last.call.op \in PublicOps /\ last.sftp0 # None)
       => last.exc # "ConnectionError"

\* download_files was called in a with-block whose connect had failed, with
\* a source that exists on the endpoint and a local directory that does not
\* exist: it raised ConnectionError and the directory was not created.
C13_Witness ==
  /\ pc = "in_block"
  /\ last.call.op = "download_files"
  /\ last.exc = "ConnectionError"
  /\ opened > 0
  /\ IsFile(Lookup(rfs, <<"/", "a">>))
  /\ Lookup(lfs, last.call.dst) = "none"

(***************************************************************************)
(* C14: an upload whose local source does not exist.                       *)
(***************************************************************************)
MissingSource ==
  /\ last.call.op \in {"upload_file", "upload_directory"}
  /\ last.sftp0 # None
  /\ Lookup(last.lfs0, last.call.src) = "none"

\* C14: upload_file called on a live session with a local path that does not
\* exist, and upload_directory with a local directory that does not exist,
\* return False and raise nothing; they make no call to the endpoint (no
\* stat, no mkdir, no put) and none to the local file system, print the
\* failure once, and leave the remote and the local side as they were.
C14_SourceMissing ==
  MissingSource =>
    /\ last.exc = "none"
    /\ last.ret = FALSE
    /\ \A k \in DOMAIN Log : Log[k].op \notin EndpointOps \cup LocalOps
    /\ Cardinality({k \in DOMAIN Log : Log[k].op = "print"}) = 1
    /\ rfs = last.rfs0
    /\ lfs = last.lfs0

\* upload_directory of a directory that does not exist, to a remote
\* directory that does not exist either: it returned False and the remote
\* directory is still missing.
C14_Witness ==
  /\ MissingSource
  /\ last.call.op = "upload_directory"
  /\ Lookup(last.rfs0, last.call.dst) = "none"
  /\ Lookup(rfs, last.call.dst) = "none"
  /\ last.ret = FALSE

(***************************************************************************)
(* C15: the recursion of _mkdir_p.                                         *)
(***************************************************************************)
\* The stats of the last call: _mkdir_p makes one in each of its invocations
\* but the one for "/".
Stats == {k \in DOMAIN Log : Log[k].op = "stat"}

\* Each invocation is for the dirname of the path of the one before, which
\* is a shorter path, and the recursion goes on to the parent only from a
\* path whose stat raised IOError and whose dirname is neither "" nor "/".
Shrinks ==
  /\ \A k \in Stats :
       (\A j \in Stats : k <= j) => Log[k].path = last.call.dst
  /\ \A i \in Stats : \A j \in Stats :
       (i < j /\ ~\E k \in Stats : i < k /\ k < j)
         => /\ Log[i].res = "IOError"
            /\ Log[j].path = os_path_dirname(Log[i].path)
            /\ Len(Log[j].path) < Len(Log[i].path)
  /\ Cardinality(Stats) <= Len(last.call.dst)

\* C15 as stated: _mkdir_p ends for every remote path, its argument getting
\* shorter with each recursive step; it issues mkdir for no path whose stat
\* succeeds, only for paths whose stat raised IOError, the outermost first;
\* and when a mkdir fails it raises that failure and issues no further
\* mkdir.
C15_Original ==
  (last.call.op = "_mkdir_p" /\ last.sftp0 # None) =>
    /\ Shrinks
    /\ \A m \in Mkdirs :
         /\ \E k \in Stats : k < m /\ Log[k].path = Log[m].path /\ Log[k].res = "IOError"
         /\ ~\E k \in Stats : Log[k].path = Log[m].path /\ Log[k].res = "none"
    /\ \A m \in Mkdirs : \A n \in Mkdirs :
         m < n => Len(Log[m].path) < Len(Log[n].path)
    /\ \A m \in Mkdirs :
         Log[m].res # "none" => (m = Len(Log) /\ last.exc = Log[m].res)

====
